---------------------------- MODULE Spec2Model ----------------------------
(***************************************************************************)
(* Model of the game engine of src/unnamed/part_001 (the latest revision   *)
(* of src/src/game.ts): Engine, World, Renderer and Player, driven by the  *)
(* browser's requestAnimationFrame queue and by Date.now().                *)
(*                                                                         *)
(* Arithmetic is exact.  Times are counted in thirds of a millisecond, so  *)
(* that fpsInterval = 1000/60 ms is the integer 50 and Date.now() is a     *)
(* multiple of 3.  Lengths and velocities are counted in units of 0.0005,  *)
(* so that friction*mass/2 = 0.0015 is 3, friction*mass = 0.003 is 6,      *)
(* MAX_VELOCITY = 0.05 is 100 and the extent 8 is 16000.                   *)
(***************************************************************************)
EXTENDS Integers, Sequences, FiniteSets, TLC

(* ------------------------------ bounds -------------------------------- *)
\* Date.now() when the Engine is constructed, in ms
BootMs == 40
\* the wall clock is followed for this many ms after construction
MaxClockMs == 52
\* number of external calls (button clicks, key events, direct calls)
MaxOps == 3
\* external calls are accepted while fewer callbacks than this are pending
MaxQueue == 4
\* longest time a first set of keys is held, in animation frames
MaxHold == 36
\* longest time the keys held after them are held, in animation frames
MaxTurn == 3
\* widest canvas a host page gives the engine, in tens of pixels
MaxCanvas == 3

(* ----------------------------- constants ------------------------------ *)
FPS == 60
RESOLUTION == 8
\* 0.05 in units of 0.0005
MAX_VELOCITY == 100
\* Player.mass
mass == 3
\* Player.friction, 0.001 in units of 0.0005
friction == 2
\* canvas.width set by main.ts
CanvasWidth == 800

\* n milliseconds in time units (thirds of a millisecond)
Ms(n) == n * 3
\* n cells in length units (0.0005)
Cells(n) == n * 2000

\* Engine.fpsInterval = 1000 / fps
fpsInterval == Ms(1000) \div FPS

\* the rows of DIRS
DirKeys == {"ArrowUp", "ArrowDown", "ArrowLeft", "ArrowRight"}
DIRS(key) ==
    CASE key = "ArrowUp"    -> <<0, -1>>
      [] key = "ArrowDown"  -> <<0, 1>>
      [] key = "ArrowLeft"  -> <<-1, 0>>
      [] key = "ArrowRight" -> <<1, 0>>

\* keys the keyboard adapter reports (e.key of keydown / keyup)
Keys == {"ArrowUp", "ArrowDown", "ArrowLeft", "ArrowRight", "q"}
\* time between two animation frames, in ms
Advance == {16, 17}
\* actions passed to Engine.do
Actions == {"start", "stop", "pause", "debug", "noop"}

VARIABLES
    clock,      \* Date.now()
    running, then, startTime, now, elapsed, debug, debugText, signal, world,
    x, y, velocity, direction,          \* Player
    queue,      \* callbacks registered with requestAnimationFrame for the next frame
    frame,      \* callbacks of the animation frame being run
    call,       \* observation: what the last step executed
    haltedBy,   \* observation: why running is false
    ops         \* number of external calls made

engineVars == <<running, then, startTime, now, elapsed, debug, debugText, signal, world>>
playerVars == <<x, y, velocity, direction>>
vars == <<clock, running, then, startTime, now, elapsed, debug, debugText,
          signal, world, x, y, velocity, direction, queue, frame, call,
          haltedBy, ops>>

(* ------------------------------- World -------------------------------- *)
\* A World is its size and its matrix of cells.  The constructor writes 0
\* into every cell, so the matrix is kept as the cells that were given
\* another value since: cells maps <<i, j>> to such a value.
NoWorld == [isNull |-> TRUE, size |-> 0, cells |-> <<>>]

\* new World(size)
NewWorld(size) == [isNull |-> FALSE, size |-> size, cells |-> <<>>]

\* World.getCell
GetCell(w, i, j) == IF <<i, j>> \in DOMAIN w.cells THEN w.cells[<<i, j>>] ELSE 0

\* World.setCell
SetCell(w, i, j, val) ==
    [w EXCEPT !.cells = [c \in (DOMAIN w.cells) \cup {<<i, j>>} |->
                            IF c = <<i, j>> THEN val ELSE w.cells[c]]]

AllCellsZero(w) ==
    \A i \in 0..(w.size - 1) : \A j \in 0..(w.size - 1) : GetCell(w, i, j) = 0

(* ------------------------------ callbacks ----------------------------- *)
\* () => this.main(); by records the call that registered it
CbMain(by) == [k |-> "main", key |-> "", active |-> FALSE, dirs |-> {}, by |-> by, stale |-> FALSE]
\* () => this.setSignal(signal); stale is set once a stop() or pause() follows
CbSetSignal(key, active) ==
    [k |-> "setSignal", key |-> key, active |-> active, dirs |-> {}, by |-> "input", stale |-> FALSE]
\* () => this.player.move()
CbMove == [k |-> "move", key |-> "", active |-> FALSE, dirs |-> {}, by |-> "draw", stale |-> FALSE]
\* the closure of Player.move over dirs
CbSetDirection(dirs) ==
    [k |-> "setDirection", key |-> "", active |-> FALSE, dirs |-> dirs, by |-> "move", stale |-> FALSE]

Pending == frame \o queue
HasPending(kind) == \E i \in 1..Len(Pending) : Pending[i].k = kind

(* ------------------------------- Engine ------------------------------- *)
EmptySignal == [k \in {} |-> FALSE]

\* Merge replacing the map by the new signal
Merge_Replace(a, b) == b

\* { ...this.signal, ...signal }
Merge(a, b) ==
    [k \in (DOMAIN a) \cup (DOMAIN b) |-> IF k \in DOMAIN b THEN b[k] ELSE a[k]]

\* ActiveDirs without the filter on the names of DIRS
ActiveDirs_NoFilter(s) == {k \in DOMAIN s : s[k]}

\* Engine.getSignals().filter(active).filter(directional), as a set of names
ActiveDirs(s) == {k \in DOMAIN s : s[k] /\ k \in DirKeys}

\* the text built by Engine.update, field by field
DebugTextOf(t, st, r, w, s) ==
    [frameNo |-> (((t - st) \div fpsInterval) % FPS) + 1,
     running |-> r,
     worldSize |-> w.size,
     cell |-> IF w.isNull THEN <<>> ELSE <<GetCell(w, 0, 0)>>,
     signal |-> s]

\* Due with the comparison against the interval lost
Due_NoGate(e) == e > 0

\* the test of Engine.main
Due(e) == e > fpsInterval

\* then = now, dropping the remainder
NextThen_Now(t, e) == t

\* this.then = this.now - (this.elapsed % this.fpsInterval)
NextThen(t, e) == t - (e % fpsInterval)

\* Renderer.draw: drawPlayer registers one Player.move
Draw(q) == Append(q, CbMove)

\* MainQueue drawing once per whole interval elapsed (catching up)
MainQueue_CatchUp(r, th, t, q) ==
    LET q1 == IF r THEN Append(q, CbMain("main")) ELSE q
    IN  IF Due(t - th)
        THEN (IF (t - th) \div fpsInterval >= 2 THEN Draw(Draw(q1)) ELSE Draw(q1))
        ELSE q1

\* MainQueue registering the next main callback whatever running is
MainQueue_Rearm(r, th, t, q) ==
    LET q1 == Append(q, CbMain("main"))
    IN  IF Due(t - th) THEN Draw(q1) ELSE q1

\* Engine.main run at time t with running r and then th: the queue, then and
\* the numbers of update() and draw() calls it makes
MainQueue(r, th, t, q) ==
    LET q1 == IF r THEN Append(q, CbMain("main")) ELSE q
    IN  IF Due(t - th) THEN Draw(q1) ELSE q1
MainThen(th, t) == IF Due(t - th) THEN NextThen(t, t - th) ELSE th
MainSteps(th, t) == IF Due(t - th) THEN 1 ELSE 0

Obs(op, action, updates, draws, mains, by, stale) ==
    [op |-> op, action |-> action, updates |-> updates, draws |-> draws,
     mains |-> mains, by |-> by, stale |-> stale, dirs |-> {}]

\* a stop() or pause() makes the setSignal callbacks already registered stale
MarkStale(q) ==
    [i \in 1..Len(q) |-> IF q[i].k = "setSignal" THEN [q[i] EXCEPT !.stale = TRUE] ELSE q[i]]

\* Event handlers (clicks, key events) run between two animation frames,
\* never between two callbacks of one frame; they read the Date.now() of
\* the frame before them.
External == frame = <<>> /\ ops < MaxOps /\ Len(queue) < MaxQueue

Init ==
    /\ clock = Ms(BootMs)
    /\ running = FALSE
    /\ then = 0
    /\ startTime = 0
    /\ now = 0
    /\ elapsed = 0
    /\ debug = TRUE
    /\ debugText = DebugTextOf(0, 0, FALSE, NoWorld, EmptySignal)
    /\ signal = EmptySignal
    /\ world = NoWorld
    /\ x = 0
    /\ y = 0
    /\ velocity = [dx |-> 0, dy |-> 0]
    /\ direction = [dx |-> 0, dy |-> 0]
    /\ queue = <<>>
    /\ frame = <<>>
    /\ call = Obs("new", "", 0, 0, 0, "", FALSE)
    /\ haltedBy = "init"
    /\ ops = 0

(* --------------------------- external calls --------------------------- *)
\* Engine.start, followed by the callbacks of tail (the rAF of Engine.do)
Start(op, tail) ==
    /\ running' = TRUE
    /\ then' = clock
    /\ startTime' = clock
    /\ world' = NewWorld(CanvasWidth \div 10)
    \* this.main()
    /\ now' = clock
    /\ elapsed' = clock - then'
    /\ debugText' = IF Due(clock - then')
                    THEN DebugTextOf(clock, startTime', TRUE, world', signal)
                    ELSE debugText
    /\ queue' = MainQueue(TRUE, then', clock, queue) \o tail
    /\ call' = Obs(op, "start", MainSteps(then', clock), MainSteps(then', clock), 1, "", FALSE)
    /\ haltedBy' = "none"
    /\ UNCHANGED <<debug, signal, x, y, velocity, direction>>

\* Engine.stop
Stop(op, tail) ==
    /\ running' = FALSE
    /\ signal' = EmptySignal
    /\ queue' = MarkStale(queue) \o tail
    /\ call' = Obs(op, "stop", 0, 0, 0, "", FALSE)
    /\ haltedBy' = "stop"
    /\ UNCHANGED <<then, startTime, now, elapsed, debug, debugText, world,
                   x, y, velocity, direction>>

\* Engine.pause
Pause(op, tail) ==
    /\ running' = ~running
    /\ debugText' = DebugTextOf(now, startTime, running', world, signal)
    /\ signal' = EmptySignal
    /\ queue' = Draw(MarkStale(queue)) \o tail
    /\ call' = Obs(op, "pause", 1, 1, 0, "", FALSE)
    /\ haltedBy' = IF running' THEN "none" ELSE "pause"
    /\ UNCHANGED <<then, startTime, now, elapsed, debug, world,
                   x, y, velocity, direction>>

\* ToggleDebug that also halts the loop
ToggleDebug_Halts(op, tail) ==
    /\ debug' = ~debug
    /\ running' = FALSE
    /\ queue' = queue \o tail
    /\ call' = Obs(op, "debug", 0, 0, 0, "", FALSE)
    /\ UNCHANGED <<then, startTime, now, elapsed, debugText, signal,
                   world, x, y, velocity, direction, haltedBy>>

\* Engine.toggleDebug
ToggleDebug(op, tail) ==
    /\ debug' = ~debug
    /\ queue' = queue \o tail
    /\ call' = Obs(op, "debug", 0, 0, 0, "", FALSE)
    /\ UNCHANGED <<running, then, startTime, now, elapsed, debugText, signal,
                   world, x, y, velocity, direction, haltedBy>>

\* the default branch of Engine.do
Noop(op, tail) ==
    /\ queue' = queue \o tail
    /\ call' = Obs(op, "noop", 0, 0, 0, "", FALSE)
    /\ UNCHANGED <<running, then, startTime, now, elapsed, debug, debugText,
                   signal, world, x, y, velocity, direction, haltedBy>>

Dispatch(op, action, tail) ==
    CASE action = "start" -> Start(op, tail)
      [] action = "stop"  -> Stop(op, tail)
      [] action = "pause" -> Pause(op, tail)
      [] action = "debug" -> ToggleDebug(op, tail)
      [] OTHER            -> Noop(op, tail)

\* Engine.do(action): the action, then requestAnimationFrame(() => this.main())
Do(action) ==
    /\ External
    /\ Dispatch("do", action, <<CbMain(IF action = "pause" THEN "do_pause" ELSE "do")>>)
    /\ ops' = ops + 1
    /\ UNCHANGED <<clock, frame>>

\* a direct call of the public start(), stop(), pause() or toggleDebug()
Direct(action) ==
    /\ External
    /\ action # "noop"
    /\ Dispatch("direct", action, <<>>)
    /\ ops' = ops + 1
    /\ UNCHANGED <<clock, frame>>

\* Engine.input without the test of running
Input_Always(key, active) ==
    /\ External
    /\ queue' = queue \o <<CbSetSignal(key, active), CbMain("input")>>
    /\ call' = Obs("input", "", 0, 0, 0, "", FALSE)
    /\ ops' = ops + 1
    /\ UNCHANGED <<clock, frame, running, then, startTime, now, elapsed, debug,
                   debugText, signal, world, x, y, velocity, direction, haltedBy>>

\* Engine.input({[key]: active})
Input(key, active) ==
    /\ External
    /\ queue' = IF running
                THEN queue \o <<CbSetSignal(key, active), CbMain("input")>>
                ELSE queue
    /\ call' = Obs("input", "", 0, 0, 0, "", FALSE)
    /\ ops' = ops + 1
    /\ UNCHANGED <<clock, frame, running, then, startTime, now, elapsed, debug,
                   debugText, signal, world, x, y, velocity, direction, haltedBy>>

(* ------------------------------ callbacks ----------------------------- *)
\* Engine.main as an animation-frame callback
Main(cb) ==
    /\ now' = clock
    /\ elapsed' = clock - then
    /\ then' = MainThen(then, clock)
    /\ debugText' = IF Due(clock - then)
                    THEN DebugTextOf(clock, startTime, running, world, signal)
                    ELSE debugText
    /\ queue' = MainQueue(running, then, clock, queue)
    /\ call' = Obs("main", "", MainSteps(then, clock), MainSteps(then, clock), 1, cb.by, FALSE)
    /\ UNCHANGED <<running, startTime, debug, signal, world, x, y, velocity,
                   direction, haltedBy>>

\* Engine.setSignal
SetSignal(cb) ==
    /\ signal' = Merge(signal, [k \in {cb.key} |-> cb.active])
    /\ call' = Obs("setSignal", "", 0, 0, 0, cb.by, cb.stale)
    /\ UNCHANGED <<running, then, startTime, now, elapsed, debug, debugText,
                   world, x, y, velocity, direction, queue, haltedBy>>

\* Player.setX / Player.setY: maxX = canvas.width / (canvas.width / RESOLUTION)
MaxPos == Cells(RESOLUTION)
\* setX / setY storing their argument as it is
SetPos_NoWrap(p) == p

\* setX / setY stopping at the edge that was crossed
SetPos_Clamp(p) == IF p < 0 THEN 0 ELSE IF p > MaxPos THEN MaxPos ELSE p

SetPos(p) == IF p < 0 THEN MaxPos ELSE IF p > MaxPos THEN 0 ELSE p

\* the velocity floor at the head of Player.move
Floor0(v) == IF v < 0 THEN 0 ELSE v

\* Player.move
MoveX(px, v, d) == SetPos(px + (Floor0(v) + friction * mass) * d)
MoveY(py, v, d) == SetPos(py + Floor0(v) * d)

\* Player.move marking the cell the player starts from
Move_Marks(cb) ==
    /\ velocity' = [dx |-> Floor0(velocity.dx), dy |-> Floor0(velocity.dy)]
    /\ x' = MoveX(x, velocity.dx, direction.dx)
    /\ y' = MoveY(y, velocity.dy, direction.dy)
    /\ world' = IF world.isNull THEN world ELSE SetCell(world, 0, 0, 1)
    /\ queue' = Append(queue, CbSetDirection(ActiveDirs(signal)))
    /\ call' = [Obs("move", "", 0, 0, 0, cb.by, FALSE) EXCEPT !.dirs = ActiveDirs(signal)]
    /\ UNCHANGED <<running, then, startTime, now, elapsed, debug, debugText,
                   signal, direction, haltedBy>>

Move(cb) ==
    /\ velocity' = [dx |-> Floor0(velocity.dx), dy |-> Floor0(velocity.dy)]
    /\ x' = MoveX(x, velocity.dx, direction.dx)
    /\ y' = MoveY(y, velocity.dy, direction.dy)
    /\ queue' = Append(queue, CbSetDirection(ActiveDirs(signal)))
    /\ call' = [Obs("move", "", 0, 0, 0, cb.by, FALSE) EXCEPT !.dirs = ActiveDirs(signal)]
    /\ UNCHANGED <<running, then, startTime, now, elapsed, debug, debugText,
                   signal, world, direction, haltedBy>>

\* Player.calculateDirection: the sum of the rows of DIRS
RECURSIVE SumDirs(_)
SumDirs(dirs) ==
    IF dirs = {} THEN <<0, 0>>
    ELSE LET k == CHOOSE e \in dirs : TRUE
             r == SumDirs(dirs \ {k})
         IN  <<r[1] + DIRS(k)[1], r[2] + DIRS(k)[2]>>
\* calculateDirection taking one of the rows instead of their sum
CalculateDirection_One(dirs) ==
    [dx |-> DIRS(CHOOSE k \in dirs : TRUE)[1], dy |-> DIRS(CHOOSE k \in dirs : TRUE)[2]]

CalculateDirection(dirs) == [dx |-> SumDirs(dirs)[1], dy |-> SumDirs(dirs)[2]]

\* Player.setDirection: one component of the new velocity
Accelerate(v, d) ==
    IF d # 0
    THEN IF v < MAX_VELOCITY THEN v + (friction * mass) \div 2 ELSE v
    ELSE v - friction * mass
\* Player.setDirection: one component of the new direction, nv the new velocity
Facing(nv, old, d) == IF d = 0 THEN (IF nv > 0 THEN old ELSE 0) ELSE d

SetDirectionTo(d) ==
    /\ velocity' = [dx |-> Accelerate(velocity.dx, d.dx),
                    dy |-> Accelerate(velocity.dy, d.dy)]
    /\ direction' = [dx |-> Facing(velocity'.dx, direction.dx, d.dx),
                     dy |-> Facing(velocity'.dy, direction.dy, d.dy)]

\* the closure registered by Player.move
SetDirection(cb) ==
    /\ IF cb.dirs # {}
       THEN SetDirectionTo(CalculateDirection(cb.dirs))
       ELSE SetDirectionTo([dx |-> 0, dy |-> 0])
    /\ call' = [Obs("setDirection", "", 0, 0, 0, cb.by, FALSE) EXCEPT !.dirs = cb.dirs]
    /\ UNCHANGED <<running, then, startTime, now, elapsed, debug, debugText,
                   signal, world, x, y, queue, haltedBy>>

\* the browser runs the next callback of the current animation frame
RunCallback ==
    /\ frame # <<>>
    /\ LET cb == Head(frame)
       IN  CASE cb.k = "main"         -> Main(cb)
             [] cb.k = "setSignal"    -> SetSignal(cb)
             [] cb.k = "move"         -> Move(cb)
             [] cb.k = "setDirection" -> SetDirection(cb)
    /\ frame' = Tail(frame)
    /\ UNCHANGED <<clock, ops>>

\* the browser starts the next animation frame, d ms after the previous one:
\* the callbacks registered so far are the ones this frame runs.  The
\* callbacks of one frame read the same Date.now().
BeginFrame(d) ==
    /\ frame = <<>>
    /\ clock + Ms(d) <= Ms(BootMs + MaxClockMs)
    /\ clock' = clock + Ms(d)
    /\ frame' = queue
    /\ queue' = <<>>
    /\ call' = Obs("frame", "", 0, 0, 0, "", FALSE)
    /\ UNCHANGED <<ops, running, then, startTime, now, elapsed, debug,
                   debugText, signal, world, x, y, velocity, direction, haltedBy>>

Next ==
    \/ \E a \in Actions : Do(a)
    \/ \E a \in Actions : Direct(a)
    \/ \E key \in Keys, active \in BOOLEAN : Input(key, active)
    \/ RunCallback
    \/ \E d \in Advance : BeginFrame(d)

Spec == Init /\ [][Next]_vars

TypeOK ==
    /\ running \in BOOLEAN
    /\ debug \in BOOLEAN
    /\ clock \in Nat
    /\ DOMAIN signal \subseteq Keys
    /\ haltedBy \in {"init", "none", "stop", "pause"}

(* ------------------------------ a game -------------------------------- *)
\* The second specification follows the frame loop from the states a game
\* is in after start(), a first set of keys held for n1 animation frames
\* and a second set held for n2 more, every frame 17 ms after the one
\* before it.  The engine only uses differences of times, so the frame
\* boundary these states are at is put at Ms(BootMs).

\* the keys held first and the keys held after them
HoldFirst == {{"ArrowRight"}, {"ArrowLeft"}, {"ArrowUp"}, {"ArrowDown", "ArrowRight"}}
HoldThen == {{}, {"ArrowRight"}, {"ArrowLeft"}, {"ArrowLeft", "ArrowRight"},
             {"ArrowUp", "ArrowDown"}}

\* the player after construction
AtRest == [x |-> 0, y |-> 0, velocity |-> [dx |-> 0, dy |-> 0],
           direction |-> [dx |-> 0, dy |-> 0]]

\* the player p after one frame of a running game: Player.move, then the
\* closure of the Player.move of the frame before, which captured keys H
StepHeld(p, H) ==
    LET d  == IF H # {} THEN CalculateDirection(H) ELSE [dx |-> 0, dy |-> 0]
        nv == [dx |-> Accelerate(Floor0(p.velocity.dx), d.dx),
               dy |-> Accelerate(Floor0(p.velocity.dy), d.dy)]
    IN  [x |-> MoveX(p.x, p.velocity.dx, p.direction.dx),
         y |-> MoveY(p.y, p.velocity.dy, p.direction.dy),
         velocity |-> nv,
         direction |-> [dx |-> Facing(nv.dx, p.direction.dx, d.dx),
                        dy |-> Facing(nv.dy, p.direction.dy, d.dy)]]

\* the player p after n such frames: the first half of them, then the rest
\* (the test on q makes TLC compute q before it goes on, which keeps the
\* evaluation shallow)
RECURSIVE HoldFor(_, _, _)
HoldFor(p, H, n) ==
    IF n = 0 THEN p
    ELSE IF n = 1 THEN StepHeld(p, H)
    ELSE LET q == HoldFor(p, H, n \div 2)
         IN  IF q.x \in Int THEN HoldFor(q, H, n - n \div 2) ELSE q

\* the signal map after the keys of H1 were pressed and then the keys held
\* were changed to H2
SignalAfter(H1, H2) == [k \in H1 \cup H2 |-> k \in H2]
\* the calls of Engine.input this took: each one started a chain of
\* Engine.main callbacks
InputsFor(H1, H2) == Cardinality(H1) + Cardinality(H1 \ H2) + Cardinality(H2 \ H1)

\* the game k frames of 17 ms after start(): then is now minus the
\* remainder of the last due tick, which grows by 1/3 ms per frame
InitPlayAt(H1, n1, H2, n2) ==
    LET k  == n1 + n2 + 2
        p  == HoldFor(HoldFor(AtRest, H1, n1), H2, n2)
        t0 == Ms(BootMs) - k * Ms(17)
        w  == NewWorld(CanvasWidth \div 10)
    IN  /\ clock = Ms(BootMs)
        /\ running = TRUE
        /\ startTime = t0
        /\ then = Ms(BootMs) - (k % fpsInterval)
        /\ now = Ms(BootMs)
        /\ elapsed = k % fpsInterval
        /\ debug = TRUE
        /\ world = w
        /\ signal = SignalAfter(H1, H2)
        /\ debugText = DebugTextOf(Ms(BootMs), t0, TRUE, w, SignalAfter(H1, H2))
        /\ x = p.x
        /\ y = p.y
        /\ velocity = p.velocity
        /\ direction = p.direction
        /\ queue = <<CbMain("main"), CbMove, CbSetDirection(H2)>>
                     \o [i \in 1..InputsFor(H1, H2) |-> CbMain("main")]
        /\ frame = <<>>
        /\ call = Obs("main", "", 0, 0, 1, "main", FALSE)
        /\ haltedBy = "none"
        /\ ops = 1 + InputsFor(H1, H2)

InitPlay ==
    \E H1 \in HoldFirst, H2 \in HoldThen, n1 \in 2..MaxHold, n2 \in 1..MaxTurn :
        InitPlayAt(H1, n1, H2, n2)

NextPlay ==
    \/ RunCallback
    \/ \E d \in Advance : BeginFrame(d)

SpecPlay == InitPlay /\ [][NextPlay]_vars

(* --------------------------- after a stop() --------------------------- *)
\* The fourth specification follows the frame loop from the states of a
\* game right after stop(), called directly (no tail) or through do('stop')
\* (one more main callback), with no external call after it.  The browser
\* keeps starting animation frames and runs every callback of a frame.
StopTails == {<<>>, <<CbMain("do")>>}

InitStopAt(H1, n1, H2, n2, tail) ==
    LET k  == n1 + n2 + 2
        p  == HoldFor(HoldFor(AtRest, H1, n1), H2, n2)
        t0 == Ms(BootMs) - k * Ms(17)
        w  == NewWorld(CanvasWidth \div 10)
    IN  /\ clock = Ms(BootMs)
        /\ running = FALSE
        /\ startTime = t0
        /\ then = Ms(BootMs) - (k % fpsInterval)
        /\ now = Ms(BootMs)
        /\ elapsed = k % fpsInterval
        /\ debug = TRUE
        /\ world = w
        /\ signal = EmptySignal
        /\ debugText = DebugTextOf(Ms(BootMs), t0, TRUE, w, SignalAfter(H1, H2))
        /\ x = p.x
        /\ y = p.y
        /\ velocity = p.velocity
        /\ direction = p.direction
        /\ queue = <<CbMain("main"), CbMove, CbSetDirection(H2)>>
                     \o [i \in 1..InputsFor(H1, H2) |-> CbMain("main")]
                     \o tail
        /\ frame = <<>>
        /\ call = Obs(IF tail = <<>> THEN "direct" ELSE "do", "stop", 0, 0, 0, "", FALSE)
        /\ haltedBy = "stop"
        /\ ops = 2 + InputsFor(H1, H2)

InitStop ==
    \E H1 \in HoldFirst, H2 \in HoldThen, n1 \in 2..MaxHold, n2 \in 1..MaxTurn,
       tail \in StopTails :
        InitStopAt(H1, n1, H2, n2, tail)

SpecStop ==
    /\ InitStop
    /\ [][NextPlay]_vars
    /\ WF_vars(RunCallback)
    /\ WF_vars(\E d \in Advance : BeginFrame(d))

(* --------------------------- other canvases --------------------------- *)
\* The Renderer takes the canvas from the host page, and start() builds
\* the World from its width.  The third specification follows the frame
\* loop from the state after new Engine() and start() on canvases of
\* other widths than main.ts's, the width 0 included.  No key is pressed,
\* so the player stays at 0, which setX and setY store whatever the width.
CanvasWidths == {10 * n : n \in 0..MaxCanvas}

InitWorldAt(w) ==
    /\ clock = Ms(BootMs)
    /\ running = TRUE
    /\ then = Ms(BootMs)
    /\ startTime = Ms(BootMs)
    /\ world = NewWorld(w \div 10)
    /\ now = Ms(BootMs)
    /\ elapsed = 0
    /\ debug = TRUE
    /\ debugText = DebugTextOf(0, 0, FALSE, NoWorld, EmptySignal)
    /\ signal = EmptySignal
    /\ x = 0
    /\ y = 0
    /\ velocity = [dx |-> 0, dy |-> 0]
    /\ direction = [dx |-> 0, dy |-> 0]
    /\ queue = <<CbMain("main")>>
    /\ frame = <<>>
    /\ call = Obs("direct", "start", 0, 0, 1, "", FALSE)
    /\ haltedBy = "none"
    /\ ops = 1

InitWorld == \E w \in CanvasWidths : InitWorldAt(w)

SpecWorld == InitWorld /\ [][NextPlay]_vars

(* ------------------------------- claims ------------------------------- *)
\* the step about to be taken runs Engine.main as an animation-frame callback
TickNext == frame # <<>> /\ Head(frame).k = "main"

\* C1: in every reachable state both velocity components lie in
\* 0..MAX_VELOCITY, the states between Player.setDirection and the next
\* Player.move included.
C1_VelocityInRange ==
    /\ 0 <= velocity.dx /\ velocity.dx <= MAX_VELOCITY
    /\ 0 <= velocity.dy /\ velocity.dy <= MAX_VELOCITY

\* C2: from a stop() until the next start() or pause(), no Player.move, no
\* Player.setDirection and no Renderer.draw is executed and the player's
\* position, velocity and direction do not change.
C2_StopHaltsSteps ==
    [][(haltedBy = "stop" /\ haltedBy' = "stop") =>
          /\ UNCHANGED <<x, y, velocity, direction>>
          /\ call'.draws = 0
          /\ call'.op \notin {"move", "setDirection"}]_vars

\* C3: a tick run with now - then strictly below the interval makes no
\* update() and no draw() call, registers no Player.move and leaves then,
\* the player, the world and the debug text unchanged.
C3_FrameDropNoEffect ==
    [][(TickNext /\ clock - then < fpsInterval) =>
          /\ call'.updates = 0
          /\ call'.draws = 0
          /\ then' = then
          /\ queue' = (IF running THEN Append(queue, CbMain("main")) ELSE queue)
          /\ UNCHANGED <<x, y, velocity, direction, world, debugText>>]_vars

\* C3 witness: a tick has run 16 ms after the last one and did nothing
C3_Witness ==
    /\ call.op = "main"
    /\ elapsed > 0 /\ elapsed < fpsInterval
    /\ call.draws = 0
    /\ ~world.isNull

\* C4 as stated: a tick run with elapsed >= interval, elapsed equal to the
\* interval included, makes exactly one update() and one draw() call.
C4_TickAtIntervalSteps ==
    [][(TickNext /\ clock - then >= fpsInterval) =>
          /\ call'.updates = 1
          /\ call'.draws = 1]_vars

\* C4 amended: a tick run with elapsed strictly above the interval makes
\* exactly one update() and one draw() call and registers exactly one
\* Player.move, however many whole intervals have elapsed.
C4_DueTickStepsOnce ==
    [][(TickNext /\ clock - then > fpsInterval) =>
          /\ call'.updates = 1
          /\ call'.draws = 1
          /\ debugText' = DebugTextOf(clock, startTime, running, world, signal)
          /\ queue' = Append(IF running THEN Append(queue, CbMain("main")) ELSE queue,
                             CbMove)]_vars

\* C4 witness: a tick found more than two whole intervals elapsed and
\* stepped once
C4_Witness ==
    /\ call.op = "main"
    /\ elapsed >= 2 * fpsInterval
    /\ call.draws = 1
    /\ Len(queue) >= 1 /\ queue[Len(queue)].k = "move"

\* C5: running leaves Stopped (the state after construction or after
\* stop()) only through start(), and Paused is entered only from Running
\* through pause().
C5_StoppedLeftOnlyByStart ==
    [][/\ (~running /\ haltedBy \in {"init", "stop"} /\ running') => call'.action = "start"
       /\ (haltedBy # "pause" /\ haltedBy' = "pause") => (running /\ call'.action = "pause")]_vars

\* C6: right after every start() the player is at (0,0) with velocity
\* (0,0) and direction (0,0), the World is new with all cells 0 and
\* then = startTime = Date.now().
C6_StartResetsAll ==
    call.action = "start" =>
        /\ x = 0 /\ y = 0
        /\ velocity = [dx |-> 0, dy |-> 0]
        /\ direction = [dx |-> 0, dy |-> 0]
        /\ ~world.isNull /\ AllCellsZero(world)
        /\ then = clock /\ startTime = clock

\* C7: a signal written after a stop() or pause() comes from an input made
\* after it: applying a setSignal registered before the stop() or pause()
\* leaves the signal map empty.
C7_NoSignalFromBeforeHalt ==
    (call.op = "setSignal" /\ call.stale) => signal = EmptySignal

\* C8: a pause() call, direct or through do('pause'), makes exactly one
\* update() and one draw() call and nothing it registers makes another;
\* it leaves then and startTime unchanged.
C8_PauseStepsOnce ==
    [][/\ call'.action = "pause" =>
            (call'.updates = 1 /\ call'.draws = 1 /\ UNCHANGED <<then, startTime>>)
       /\ (TickNext /\ Head(frame).by = "do_pause") => call'.draws = 0]_vars

\* C9: no tick (Engine.main) runs between an input(...) call and the
\* moment Engine.setSignal writes its signal.
C9_NoTickBeforeSignalWritten ==
    call.mains > 0 => ~HasPending("setSignal")

\* C10: no external call and no tick runs between the position update of a
\* step (Player.move) and its velocity and direction update
\* (Player.setDirection).
C10_StepIsOneCall ==
    HasPending("setDirection") => (call.op \notin {"do", "direct", "input"} /\ call.mains = 0)

\* the step about to be taken runs the callback of the given kind
RunsNext(kind) == frame # <<>> /\ Head(frame).k = kind

\* C11: a draw made by a due tick comes after the physics step of that
\* tick: when the tick has drawn, neither Player.move nor
\* Player.setDirection of the step is still to be run.
C11_DrawAfterStep ==
    (call.op = "main" /\ call.draws > 0) =>
        (~HasPending("move") /\ ~HasPending("setDirection"))

\* C12: Engine.setSignal writes the entry of the given name and leaves
\* every other name as it was, present or absent, active or not.
C12_SetSignalMerges ==
    [][RunsNext("setSignal") =>
          /\ Head(frame).key \in DOMAIN signal'
          /\ signal'[Head(frame).key] = Head(frame).active
          /\ \A k \in Keys \ {Head(frame).key} :
                /\ (k \in DOMAIN signal') = (k \in DOMAIN signal)
                /\ k \in DOMAIN signal => signal'[k] = signal[k]]_vars

\* C12 witness: a setSignal has run and left one key active and another
\* key released, both present in the map
C12_Witness ==
    /\ call.op = "setSignal"
    /\ \E a, b \in DOMAIN signal : a # b /\ signal[a] /\ ~signal[b]

\* the signal maps that differ from s only in the names outside DIRS
NonDirVariants(s) ==
    LET dom == (DOMAIN s) \cap DirKeys
    IN  {v \in UNION {[dom \cup e -> BOOLEAN] : e \in SUBSET (Keys \ DirKeys)} :
            \A k \in dom : v[k] = s[k]}

\* C14: names outside DIRS never influence the player.  Player.move
\* registers the same closure and moves the player the same way for every
\* signal map that differs from the current one only in such names, the
\* closures only hold names of DIRS and alone decide the new velocity, no
\* other step writes the player, and Engine.setSignal keeps such a name
\* in the map.
C14_NonDirectionalIgnored ==
    [][/\ RunsNext("move") =>
            \A v \in NonDirVariants(signal) :
                /\ queue' = Append(queue, CbSetDirection(ActiveDirs(v)))
                /\ x' = MoveX(x, velocity.dx, direction.dx)
                /\ y' = MoveY(y, velocity.dy, direction.dy)
       /\ RunsNext("setDirection") =>
            /\ Head(frame).dirs \subseteq DirKeys
            /\ velocity' = [dx |-> Accelerate(velocity.dx, CalculateDirection(Head(frame).dirs).dx),
                            dy |-> Accelerate(velocity.dy, CalculateDirection(Head(frame).dirs).dy)]
       /\ ~(RunsNext("move") \/ RunsNext("setDirection")) => UNCHANGED playerVars
       /\ (RunsNext("setSignal") /\ Head(frame).key \notin DirKeys) =>
            Head(frame).key \in DOMAIN signal']_vars

\* C14 witness: Player.move has run while a name outside DIRS and a name
\* of DIRS were both active
C14_Witness ==
    /\ call.op = "move"
    /\ \E k \in DOMAIN signal : k \notin DirKeys /\ signal[k]
    /\ call.dirs # {}

\* C19: on each axis a direction component of 0 implies a velocity
\* component of 0.
C19_ZeroDirectionZeroVelocity ==
    /\ direction.dx = 0 => velocity.dx = 0
    /\ direction.dy = 0 => velocity.dy = 0

\* C20: toggleDebug() changes the debug flag and nothing else of the
\* engine, the world and the player; start(), stop() and pause() leave the
\* debug flag alone, and so does every callback.
C20_DebugIndependent ==
    [][/\ call'.action = "debug" =>
            /\ debug' = ~debug
            /\ UNCHANGED <<running, then, startTime, now, elapsed, debugText,
                           signal, world, x, y, velocity, direction>>
            /\ call'.op = "direct" => queue' = queue
       /\ call'.action # "debug" => debug' = debug]_vars

\* C20 witness: the debug flag was switched off while the engine runs
C20_Witness ==
    /\ call.action = "debug"
    /\ ~debug
    /\ running
    /\ ~world.isNull

\* the x and y coordinates Player.move passes to setX and setY
TargetX == x + (Floor0(velocity.dx) + friction * mass) * direction.dx
TargetY == y + Floor0(velocity.dy) * direction.dy

\* C13: a setDirection closure that captured ArrowLeft and ArrowRight
\* together changes velocity.dx and direction.dx as a closure without
\* intent on the x axis does, whatever the player's state, and likewise
\* for ArrowUp and ArrowDown on the y axis; Player.move computes the
\* position from the player's state alone.
C13_OppositeKeysCancel ==
    [][/\ (RunsNext("setDirection") /\ {"ArrowLeft", "ArrowRight"} \subseteq Head(frame).dirs) =>
            /\ velocity'.dx = velocity.dx - friction * mass
            /\ direction'.dx = (IF velocity'.dx > 0 THEN direction.dx ELSE 0)
       /\ (RunsNext("setDirection") /\ {"ArrowUp", "ArrowDown"} \subseteq Head(frame).dirs) =>
            /\ velocity'.dy = velocity.dy - friction * mass
            /\ direction'.dy = (IF velocity'.dy > 0 THEN direction.dy ELSE 0)
       /\ RunsNext("move") => (x' = SetPos(TargetX) /\ y' = SetPos(TargetY))]_vars

\* C13 witness: a closure holding ArrowLeft and ArrowRight has run on a
\* player moving along x, which keeps moving the same way, slower
C13_Witness ==
    /\ call.op = "setDirection"
    /\ {"ArrowLeft", "ArrowRight"} \subseteq call.dirs
    /\ velocity.dx > 0
    /\ direction.dx = 1

\* C15: with no directional key held and velocity.dx > 0, Player.move
\* advances x in the retained direction, and the closure that follows sets
\* direction.dx to 0 exactly when it brings velocity.dx to 0.
C15_DirectionEndsWithVelocity ==
    [][/\ (RunsNext("move") /\ ActiveDirs(signal) = {} /\ velocity.dx > 0 /\ direction.dx # 0) =>
            x' = SetPos(x + (velocity.dx + friction * mass) * direction.dx)
       /\ (RunsNext("setDirection") /\ Head(frame).dirs = {} /\ velocity.dx > 0) =>
            ((direction'.dx = 0) <=> (velocity'.dx = 0))]_vars

\* C16: a closure that captured ArrowRight alone never lowers velocity.dx,
\* never raises it above MAX_VELOCITY and keeps it once it equals
\* MAX_VELOCITY.
C16_VelocityClimbsToMax ==
    [][(RunsNext("setDirection") /\ Head(frame).dirs = {"ArrowRight"}) =>
          /\ velocity'.dx >= velocity.dx
          /\ velocity'.dx <= MAX_VELOCITY
          /\ velocity.dx = MAX_VELOCITY => velocity'.dx = MAX_VELOCITY]_vars

\* C17: in every reachable state 0 <= x < extent and 0 <= y < extent.
C17_PositionBelowExtent ==
    /\ 0 <= x /\ x < MaxPos
    /\ 0 <= y /\ y < MaxPos

\* C17, amended: in every reachable state 0 <= x <= extent and
\* 0 <= y <= extent.
C17_PositionWithinExtent ==
    /\ 0 <= x /\ x <= MaxPos
    /\ 0 <= y /\ y <= MaxPos

\* C17 witness: Player.move took the player below 0 on the x axis and left
\* it at the extent
C17_Witness ==
    /\ call.op = "move"
    /\ x = MaxPos
    /\ direction.dx = -1

\* C18: Player.move stores 0 for a coordinate above the extent, the extent
\* for a coordinate below 0 and the coordinate itself otherwise.
C18_PositionWraps ==
    [][RunsNext("move") =>
          /\ TargetX > MaxPos => x' = 0
          /\ TargetX < 0 => x' = MaxPos
          /\ (0 <= TargetX /\ TargetX <= MaxPos) => x' = TargetX
          /\ TargetY > MaxPos => y' = 0
          /\ TargetY < 0 => y' = MaxPos
          /\ (0 <= TargetY /\ TargetY <= MaxPos) => y' = TargetY]_vars

\* C18 witness: Player.move took the player above the extent on the x axis
\* and left it at 0
C18_Witness ==
    /\ call.op = "move"
    /\ x = 0
    /\ direction.dx = 1
    /\ velocity.dx > 0

\* C21: every cell of the engine's World holds 0, whatever operations,
\* ticks and physics steps have run since it was constructed, and only
\* start() replaces the World.
\* (A cell holds another value than the constructor's 0 only if the matrix
\* has an entry for it.)
C21_WorldCellsStayZero ==
    ~world.isNull =>
        /\ \A c \in DOMAIN world.cells : world.cells[c] = 0
        /\ GetCell(world, 0, 0) = 0
        /\ GetCell(world, world.size - 1, world.size - 1) = 0

\* C21 witness: the World is there and a tick, a Player.move and its
\* closure have run
C21_Witness ==
    /\ ~world.isNull
    /\ call.op = "setDirection"
    /\ call.dirs # {}
    /\ direction # [dx |-> 0, dy |-> 0]

\* C22: no World of size <= 0 is ever produced: the constructor fails for
\* such a size, and so does the start() that called it, which leaves the
\* engine without a World.
C22_NoWorldWithoutSize ==
    ~world.isNull => world.size > 0

\* the velocity and the direction that setDirection computes on one axis
\* from velocity v, direction old and intent d
StepVelocity(v, d) == Accelerate(Floor0(v), d)
StepDirection(v, old, d) == Facing(StepVelocity(v, d), old, d)

\* C23: the position change of a step uses the velocity and the direction
\* computed in that step from the signals active at that time: Player.move
\* advances x and y by the velocity and the direction that setDirection
\* gives for the keys it captures.
C23_PositionUsesNewVelocity ==
    [][RunsNext("move") =>
          LET d == CalculateDirection(ActiveDirs(signal))
          IN  /\ x' = SetPos(x + (StepVelocity(velocity.dx, d.dx) + friction * mass)
                                   * StepDirection(velocity.dx, direction.dx, d.dx))
              /\ y' = SetPos(y + StepVelocity(velocity.dy, d.dy)
                                   * StepDirection(velocity.dy, direction.dy, d.dy))]_vars

\* C24: a tick that steps sets then to now - (elapsed mod interval):
\* afterwards 0 <= now - then < interval, then has advanced by a positive
\* whole multiple of the interval and is not after now.  Hence, within one
\* animation frame, once a callback leaves now - then at or below the
\* interval no later callback of the frame steps: at most one of the main
\* callbacks of a frame performs a step.
C24_ThenCarriesRemainder ==
    [][/\ (TickNext /\ Due(clock - then)) =>
            /\ call'.updates = 1
            /\ then' = clock - ((clock - then) % fpsInterval)
            /\ 0 <= clock - then' /\ clock - then' < fpsInterval
            /\ then' > then
            /\ (then' - then) % fpsInterval = 0
            /\ then' <= clock
       /\ (frame # <<>> /\ ~Due(clock - then)) =>
            /\ call'.updates = 0
            /\ then' = then]_vars

\* C24 witness: a main callback has stepped and carried a remainder, and
\* another main callback of the same frame is still to run
C24_Witness ==
    /\ call.op = "main"
    /\ call.updates = 1
    /\ elapsed > fpsInterval
    /\ then > 0 /\ then < clock
    /\ \E i \in DOMAIN frame : frame[i].k = "main"

\* the number of Engine.main callbacks in q
MainCount(q) == Cardinality({i \in DOMAIN q : q[i].k = "main"})

\* C25: a start(), do(...) or input(...) call made while the engine runs
\* and a main callback is pending adds no main callback to the pending
\* ones.
C25_NoNewMainLoop ==
    [][(/\ running /\ running'
        /\ call'.op \in {"do", "direct", "input"}
        /\ MainCount(Pending) >= 1) =>
          MainCount(Pending') <= MainCount(Pending)]_vars

\* C27: an input(...) call made while running is false changes nothing:
\* the signal map and the pending callbacks are as before.
C27_InputIgnoredWhenHalted ==
    [][(call'.op = "input" /\ ~running) =>
          UNCHANGED <<signal, queue, frame, running, then, startTime, now,
                      elapsed, debug, debugText, world, x, y, velocity,
                      direction, haltedBy>>]_vars

\* C27 witness: a key event arrived during a pause of a started engine
C27_Witness ==
    /\ call.op = "input"
    /\ ~running
    /\ haltedBy = "pause"
    /\ ~world.isNull

\* C26: after stop() with no further external call, a main callback
\* registers nothing but the one Player.move of its draw, a Player.move
\* registers exactly its one closure, the closure registers nothing, and
\* the pending callbacks eventually are none, for good.
C26_QueueDrainsAfterStop ==
    /\ [][/\ RunsNext("main") =>
               queue' = (IF Due(clock - then) THEN Append(queue, CbMove) ELSE queue)
          /\ RunsNext("move") =>
               /\ Len(queue') = Len(queue) + 1
               /\ queue'[Len(queue')].k = "setDirection"
               /\ SubSeq(queue', 1, Len(queue)) = queue
          /\ RunsNext("setDirection") => queue' = queue]_vars
    /\ <>[](Pending = <<>>)

\* C26 witness: after a stop() the last closure has run and nothing is
\* pending
C26_Witness ==
    /\ haltedBy = "stop"
    /\ call.op = "setDirection"
    /\ Pending = <<>>
=============================================================================
